---------------------------- MODULE Spec2Model ----------------------------
(***************************************************************************)
(* Energy-ratio computation of flasc/energy_ratio/energy_ratio.py:         *)
(* the single-pass reducer _compute_energy_ratio_single, the bootstrap     *)
(* orchestrator _compute_energy_ratio_bootstrap and the public entry point *)
(* compute_energy_ratio.                                                   *)
(*                                                                         *)
(* Floating-point numbers are modelled as exact rationals extended with    *)
(* null (a polars missing value), NaN and the two infinities; rounding is  *)
(* not modelled.  Tables are sequences of rows, a row is a function from   *)
(* column names to values.                                                 *)
(***************************************************************************)
EXTENDS Integers, Sequences, FiniteSets, TLC

VARIABLES
    table,      \* the observation table held by er_in (a sequence of rows)
    present,    \* the predefined columns ('pow_ref', 'ws', 'wd') the table has
    paired,     \* ghost: every row of the table was added as one half of an A/B pair
    args,       \* the arguments of the call in progress or last made
    pc,         \* position of the call: "idle", "boot" (in the orchestrator), "pool" (workers running), "done"
    draws,      \* the row indices er_in.resample_energy_table drew, one entry per resample so far
    outs,       \* the per-resample outputs of the reducer, in list order
    boot,       \* the resolved parameters handed to the reducer or the orchestrator
    log,        \* the collaborator calls and warnings of the call, in order
    out         \* the value returned by the call, or the error it raised

vars == <<table, present, paired, args, pc, draws, outs, boot, log, out>>

-----------------------------------------------------------------------------
(* Values: rationals n/d (d > 0, lowest terms), null, NaN, +inf, -inf.     *)

RECURSIVE GCD(_, _)
GCD(a, b) == IF b = 0 THEN a ELSE GCD(b, a % b)

Abs(x) == IF x < 0 THEN -x ELSE x

Rat(n, d) ==
    LET s == IF d < 0 THEN -1 ELSE 1
        g == GCD(Abs(n), Abs(d))
    IN  [k |-> "num", n |-> (s * n) \div g, d |-> (s * d) \div g]

Num(n) == [k |-> "num", n |-> n, d |-> 1]
Null   == [k |-> "null", n |-> 0, d |-> 1]
NaN    == [k |-> "nan", n |-> 0, d |-> 1]
PosInf == [k |-> "inf", n |-> 1, d |-> 1]
NegInf == [k |-> "inf", n |-> -1, d |-> 1]

IsNull(v) == v.k = "null"
IsNum(v)  == v.k = "num"
Sign(v)   == IF v.n < 0 THEN -1 ELSE IF v.n > 0 THEN 1 ELSE 0
Inf(s)    == IF s < 0 THEN NegInf ELSE PosInf

\* a < b for two finite numbers
Less(a, b) == a.n * b.d < b.n * a.d

\* finite sums and products (means, energies)
AddR(a, b) == Rat(a.n * b.d + b.n * a.d, a.d * b.d)
MulR(a, b) == Rat(a.n * b.n, a.d * b.d)

\* polars expression arithmetic on Float64: null propagates, then IEEE 754
FSub(a, b) ==
    IF IsNull(a) \/ IsNull(b) THEN Null
    ELSE IF a.k = "nan" \/ b.k = "nan" THEN NaN
    ELSE IF a.k = "inf" /\ b.k = "inf" THEN (IF a.n = b.n THEN NaN ELSE a)
    ELSE IF a.k = "inf" THEN a
    ELSE IF b.k = "inf" THEN Inf(-b.n)
    ELSE Rat(a.n * b.d - b.n * a.d, a.d * b.d)

FMul(a, b) ==
    IF IsNull(a) \/ IsNull(b) THEN Null
    ELSE IF a.k = "nan" \/ b.k = "nan" THEN NaN
    ELSE IF a.k = "inf" \/ b.k = "inf"
         THEN (IF Sign(a) * Sign(b) = 0 THEN NaN ELSE Inf(Sign(a) * Sign(b)))
    ELSE MulR(a, b)

FDiv(a, b) ==
    IF IsNull(a) \/ IsNull(b) THEN Null
    ELSE IF a.k = "nan" \/ b.k = "nan" THEN NaN
    ELSE IF a.k = "inf" /\ b.k = "inf" THEN NaN
    ELSE IF a.k = "inf" THEN Inf(IF Sign(b) < 0 THEN -a.n ELSE a.n)
    ELSE IF b.k = "inf" THEN Num(0)
    ELSE IF b.n = 0 THEN (IF a.n = 0 THEN NaN ELSE Inf(Sign(a)))
    ELSE Rat(a.n * b.d, a.d * b.n)

-----------------------------------------------------------------------------
(* Sequence helpers.                                                       *)

Range(s) == {s[i] : i \in DOMAIN s}

\* the elements of s in order of first appearance (groupby/pivot/unique with
\* maintain_order)
RECURSIVE Uniq(_)
Uniq(s) ==
    IF s = <<>> THEN <<>>
    ELSE LET h == Uniq(SubSeq(s, 1, Len(s) - 1))
             x == s[Len(s)]
         IN  IF x \in Range(h) THEN h ELSE Append(h, x)

RECURSIVE SumSeq(_)
SumSeq(s) == IF s = <<>> THEN Num(0) ELSE AddR(s[1], SumSeq(Tail(s)))

RECURSIVE SumInt(_)
SumInt(s) == IF s = <<>> THEN 0 ELSE s[1] + SumInt(Tail(s))

MinOf(S) == CHOOSE m \in S : \A x \in S : m <= x

RECURSIVE Flatten(_)
Flatten(ss) == IF ss = <<>> THEN <<>> ELSE ss[1] \o Flatten(Tail(ss))

-----------------------------------------------------------------------------
(* Bin settings: the defaults of the signature, with a short wind-direction *)
(* range so that every bin is reached.                                     *)

wd_step == 2
wd_min  == 0
NumWdBins == 2
wd_max  == wd_min + NumWdBins * wd_step
ws_step == 1
ws_min  == 0
ws_max  == 50

bin_cols_in == <<"wd_bin", "ws_bin">>

-----------------------------------------------------------------------------
(* Binning utilities (flasc.energy_ratio.energy_ratio_utilities).          *)

\* v < c and v >= c for a finite number v and an integer c
LessInt(v, c) == v.n < c * v.d
FloorDiv(v, lo, step) == (v.n - lo * v.d) \div (v.d * step)

\* arithmetic mean of the row's columns cols, null if any of them is null
RowMean(r, cols) ==
    IF \E i \in DOMAIN cols : IsNull(r[cols[i]]) THEN Null
    ELSE MulR(SumSeq([i \in DOMAIN cols |-> r[cols[i]]]), Rat(1, Len(cols)))

add_power_ref(r, ref_cols)   == RowMean(r, ref_cols)
add_power_test(r, test_cols) == RowMean(r, test_cols)

\* the representative wind direction of a row; the calls modelled configure
\* one wind-direction source column, whose circular mean is its own value
add_wd(r, wd_cols) == r[wd_cols[1]]

\* half-open bins [lo + k*step, lo + (k+1)*step) inside [lo, hi), labelled by
\* their left edge; null outside the range
BinOf(v, step, lo, hi) ==
    IF IsNull(v) \/ LessInt(v, lo) \/ ~LessInt(v, hi) THEN Null
    ELSE Num(lo + step * FloorDiv(v, lo, step))

add_ws_bin(r, ws_cols) == BinOf(RowMean(r, ws_cols), ws_step, ws_min, ws_max)
add_wd_bin(wd)         == BinOf(wd, wd_step, wd_min, wd_max)

\* the duplicates of one row: one per edge within the radius of its wind
\* direction, with the wind direction mirrored across that edge
ReflectionsOf(w, edges, radius) ==
    LET near(e) == Abs(w.wd.n - e * w.wd.d) <= radius * w.wd.d
        hit     == SelectSeq(edges, near)
    IN  [i \in DOMAIN hit |->
            [w EXCEPT !.wd = Rat(2 * hit[i] * w.wd.d - w.wd.n, w.wd.d)]]

add_reflected_rows(ws, edges, radius) ==
    ws \o Flatten([i \in DOMAIN ws |-> ReflectionsOf(ws[i], edges, radius)])

-----------------------------------------------------------------------------
(* Result tables: [ok, err, columns, rows]; rows are functions from the    *)
(* column names to values.  A raised exception is a result with ok FALSE.  *)

Tbl(columns, rows) == [ok |-> TRUE, err |-> "", columns |-> columns, rows |-> rows]
Err(msg)           == [ok |-> FALSE, err |-> msg, columns |-> <<>>, rows |-> <<>>]

\* DataFrame.rename({old[i]: new[i]}): every old name must be a column
Rename(t, old, new) ==
    IF ~t.ok THEN t
    ELSE IF \E i \in DOMAIN old : old[i] \notin Range(t.columns)
    THEN Err("SchemaFieldNotFound")
    ELSE LET to(c)   == IF c \in Range(old)
                        THEN new[CHOOSE i \in DOMAIN old : old[i] = c] ELSE c
             from(c) == CHOOSE b \in Range(t.columns) : to(b) = c
             cols    == [i \in DOMAIN t.columns |-> to(t.columns[i])]
         IN  Tbl(cols, [j \in DOMAIN t.rows |->
                           [c \in Range(cols) |-> t.rows[j][from(c)]]])

\* DataFrame.select(cols): exactly these columns, in this order
Select(t, cols) ==
    IF ~t.ok THEN t
    ELSE IF \E i \in DOMAIN cols : cols[i] \notin Range(t.columns)
    THEN Err("ColumnNotFound")
    ELSE Tbl(cols, [j \in DOMAIN t.rows |-> [c \in Range(cols) |-> t.rows[j][c]]])

\* DataFrame.sort('wd_bin'): stable, ascending
RECURSIVE InsertByWdBin(_, _)
InsertByWdBin(rows, r) ==
    IF rows = <<>> THEN <<r>>
    ELSE IF Less(r["wd_bin"], rows[Len(rows)]["wd_bin"])
         THEN Append(InsertByWdBin(SubSeq(rows, 1, Len(rows) - 1), r), rows[Len(rows)])
         ELSE Append(rows, r)

RECURSIVE SortRows(_)
SortRows(rows) ==
    IF rows = <<>> THEN <<>>
    ELSE InsertByWdBin(SortRows(SubSeq(rows, 1, Len(rows) - 1)), rows[Len(rows)])

\* the sort of line 113 left out
SortByWdBin_Unsorted(t) == t

SortByWdBin(t) == IF ~t.ok THEN t ELSE Tbl(t.columns, SortRows(t.rows))

-----------------------------------------------------------------------------
(* _compute_energy_ratio_single, stage by stage.                           *)

\* the first of the configured columns left unchecked
FilterNotNull_SkipFirst(df_, cols) ==
    SelectSeq(df_, LAMBDA r : \A i \in DOMAIN cols : i = 1 \/ ~IsNull(r[cols[i]]))

\* line 63: keep the rows with no null in any configured input column
FilterNotNull(df_, cols) ==
    SelectSeq(df_, LAMBDA r : \A i \in DOMAIN cols : ~IsNull(r[cols[i]]))

\* line 72: np.arange(wd_min, wd_max + wd_step, wd_step)
Edges ==
    LET n == ((wd_max + wd_step - wd_min) + wd_step - 1) \div wd_step
    IN  [i \in 1..n |-> wd_min + (i - 1) * wd_step]

\* no reflected rows whatever the radius
WithWd_NeverReflects(df_, wd_cols, wd_bin_overlap_radius) ==
    [i \in DOMAIN df_ |-> [r |-> df_[i], wd |-> add_wd(df_[i], wd_cols)]]

\* lines 66-73: the rows with their wind direction, reflected rows appended
\* only when the radius is positive
WithWd(df_, wd_cols, wd_bin_overlap_radius) ==
    LET ws == [i \in DOMAIN df_ |-> [r |-> df_[i], wd |-> add_wd(df_[i], wd_cols)]]
    IN  IF wd_bin_overlap_radius > 0
        THEN add_reflected_rows(ws, Edges, wd_bin_overlap_radius)
        ELSE ws

\* lines 76-83: bins and powers of every row
Binned(ws, ref_cols, test_cols, ws_cols) ==
    [i \in DOMAIN ws |->
        [df_name  |-> ws[i].r["df_name"],
         wd_bin   |-> add_wd_bin(ws[i].wd),
         ws_bin   |-> add_ws_bin(ws[i].r, ws_cols),
         pow_ref  |-> add_power_ref(ws[i].r, ref_cols),
         pow_test |-> add_power_test(ws[i].r, test_cols)]]

\* line 91: drop the rows with a null bin
FilterBins(bs) == SelectSeq(bs, LAMBDA b : ~IsNull(b.wd_bin) /\ ~IsNull(b.ws_bin))

\* lines 92-93: groupby(wd_bin, ws_bin, df_name), groups in order of first
\* appearance, with mean pow_ref, mean pow_test and the row count
GroupA(bs) ==
    LET keys == Uniq([i \in DOMAIN bs |-> <<bs[i].wd_bin, bs[i].ws_bin, bs[i].df_name>>])
        mean(s) == MulR(SumSeq(s), Rat(1, Len(s)))
    IN  [i \in DOMAIN keys |->
            LET g == SelectSeq(bs, LAMBDA b :
                                   <<b.wd_bin, b.ws_bin, b.df_name>> = keys[i])
            IN  [wd_bin   |-> keys[i][1],
                 ws_bin   |-> keys[i][2],
                 df_name  |-> keys[i][3],
                 pow_ref  |-> mean([j \in DOMAIN g |-> g[j].pow_ref]),
                 pow_test |-> mean([j \in DOMAIN g |-> g[j].pow_test]),
                 count    |-> Len(g)]]

\* every condition weighted by its own count
CountMin_OwnCount(ga, g) == g.count

\* line 96: pl.col('count').min().over(wd_bin, ws_bin)
CountMin(ga, g) ==
    MinOf({ga[j].count : j \in {j \in DOMAIN ga :
                ga[j].wd_bin = g.wd_bin /\ ga[j].ws_bin = g.ws_bin}})

\* lines 94-104: count_min, ref_energy and test_energy of every group
StageA(bs) ==
    LET ga == GroupA(bs)
    IN  [i \in DOMAIN ga |->
            LET count_min == CountMin(ga, ga[i])
            IN  [wd_bin      |-> ga[i].wd_bin,
                 ws_bin      |-> ga[i].ws_bin,
                 df_name     |-> ga[i].df_name,
                 pow_ref     |-> ga[i].pow_ref,
                 pow_test    |-> ga[i].pow_test,
                 count       |-> ga[i].count,
                 count_min   |-> count_min,
                 ref_energy  |-> MulR(ga[i].pow_ref, Num(count_min)),
                 test_energy |-> MulR(ga[i].pow_test, Num(count_min))]]

\* line 108: energy_ratio = test_energy / ref_energy
EnergyRatio(test_energy, ref_energy) == FDiv(test_energy, ref_energy)

\* lines 105-109: groupby(wd_bin, df_name) summing over the ws bins
StageB(sa) ==
    LET keys == Uniq([i \in DOMAIN sa |-> <<sa[i].wd_bin, sa[i].df_name>>])
    IN  [i \in DOMAIN keys |->
            LET g    == SelectSeq(sa, LAMBDA a : <<a.wd_bin, a.df_name>> = keys[i])
                ref  == SumSeq([j \in DOMAIN g |-> g[j].ref_energy])
                test == SumSeq([j \in DOMAIN g |-> g[j].test_energy])
            IN  [wd_bin       |-> keys[i][1],
                 df_name      |-> keys[i][2],
                 ref_energy   |-> ref,
                 test_energy  |-> test,
                 count        |-> SumInt([j \in DOMAIN g |-> g[j].count]),
                 energy_ratio |-> EnergyRatio(test, ref)]]

\* only the wd bins in which every condition of the data has a group
PivotIndex_AllNames(sb) ==
    LET names == {sb[i].df_name : i \in DOMAIN sb}
        all   == Uniq([i \in DOMAIN sb |-> sb[i].wd_bin])
    IN  SelectSeq(all, LAMBDA b :
            \A n \in names : \E i \in DOMAIN sb : sb[i].wd_bin = b /\ sb[i].df_name = n)

\* the index of the pivot: line 110, index='wd_bin'
PivotIndex(sb) == Uniq([i \in DOMAIN sb |-> sb[i].wd_bin])

\* line 110: pivot(values=['energy_ratio','count'], columns='df_name',
\* index='wd_bin', aggregate_function='first'): one row per index value and
\* one column per value and df_name found in the data, null where absent
Pivot(sb) ==
    LET idx   == PivotIndex(sb)
        names == Uniq([i \in DOMAIN sb |-> sb[i].df_name])
        er    == [i \in DOMAIN names |-> "energy_ratio_df_name_" \o names[i]]
        ct    == [i \in DOMAIN names |-> "count_df_name_" \o names[i]]
        cols  == <<"wd_bin">> \o er \o ct
        hits(b, n) == SelectSeq(sb, LAMBDA g : g.wd_bin = b /\ g.df_name = n)
        cell(b, c) ==
            IF c = "wd_bin" THEN b
            ELSE IF c \in Range(er)
            THEN LET h == hits(b, names[CHOOSE i \in DOMAIN er : er[i] = c])
                 IN  IF h = <<>> THEN Null ELSE h[1].energy_ratio
            ELSE LET h == hits(b, names[CHOOSE i \in DOMAIN ct : ct[i] = c])
                 IN  IF h = <<>> THEN Null ELSE Num(h[1].count)
    IN  Tbl(cols, [i \in DOMAIN idx |-> [c \in Range(cols) |-> cell(idx[i], c)]])

\* the difference taken relative to the second condition
Uplift_RelativeToSecond(first, second) ==
    FDiv(FMul(Num(100), FSub(second, first)), second)

\* line 119: uplift = 100 * (second - first) / first
Uplift(first, second) == FDiv(FMul(Num(100), FSub(second, first)), first)

\* lines 118-120: with_columns(uplift = ...)
WithUplift(t, df_names) ==
    IF ~t.ok THEN t
    ELSE Tbl(Append(t.columns, "uplift"),
             [j \in DOMAIN t.rows |->
                 [c \in Range(t.columns) \cup {"uplift"} |->
                     IF c = "uplift"
                     THEN Uplift(t.rows[j][df_names[1]], t.rows[j][df_names[2]])
                     ELSE t.rows[j][c]]])

CountCols(df_names) == [i \in DOMAIN df_names |-> "count_" \o df_names[i]]

\* the count columns placed before the uplift column
OutputColumns_CountsFirst(df_names) ==
    IF Len(df_names) = 2
    THEN <<"wd_bin">> \o df_names \o CountCols(df_names) \o <<"uplift">>
    ELSE <<"wd_bin">> \o df_names \o CountCols(df_names)

\* lines 117-127: the uplift column for two conditions, and the column order
OutputColumns(df_names) ==
    IF Len(df_names) = 2
    THEN <<"wd_bin">> \o df_names \o <<"uplift">> \o CountCols(df_names)
    ELSE <<"wd_bin">> \o df_names \o CountCols(df_names)

\* the table before the pivot (lines 63-109)
Reduced(df_, ref_cols, test_cols, wd_cols, ws_cols, wd_bin_overlap_radius) ==
    StageB(StageA(FilterBins(Binned(
        WithWd(FilterNotNull(df_, ref_cols \o test_cols \o ws_cols \o wd_cols),
               wd_cols, wd_bin_overlap_radius),
        ref_cols, test_cols, ws_cols))))

_compute_energy_ratio_single(df_, df_names, ref_cols, test_cols, wd_cols, ws_cols, wd_bin_overlap_radius) ==
    LET sb == Reduced(df_, ref_cols, test_cols, wd_cols, ws_cols, wd_bin_overlap_radius)
        p1 == Rename(Pivot(sb),
                     [i \in DOMAIN df_names |-> "energy_ratio_df_name_" \o df_names[i]],
                     df_names)
        p2 == Rename(p1,
                     [i \in DOMAIN df_names |-> "count_df_name_" \o df_names[i]],
                     CountCols(df_names))
        p3 == SortByWdBin(p2)
        p4 == IF Len(df_names) = 2 THEN WithUplift(p3, df_names) ELSE p3
    IN  Select(p4, OutputColumns(df_names))

-----------------------------------------------------------------------------
(* _compute_energy_ratio_bootstrap: the combination of the N outputs.      *)

\* total order of a sort: -inf < finite < +inf < NaN
Before(a, b) ==
    IF a.k = "nan" THEN FALSE
    ELSE IF b.k = "nan" THEN TRUE
    ELSE IF a.k = "inf" THEN a.n < 0 /\ ~(b.k = "inf" /\ b.n < 0)
    ELSE IF b.k = "inf" THEN b.n > 0
    ELSE Less(a, b)

RECURSIVE InsertVal(_, _)
InsertVal(vs, v) ==
    IF vs = <<>> THEN <<v>>
    ELSE IF Before(v, vs[Len(vs)])
         THEN Append(InsertVal(SubSeq(vs, 1, Len(vs) - 1), v), vs[Len(vs)])
         ELSE Append(vs, v)

RECURSIVE SortVals(_)
SortVals(vs) ==
    IF vs = <<>> THEN <<>>
    ELSE InsertVal(SortVals(SubSeq(vs, 1, Len(vs) - 1)), vs[Len(vs)])

\* a null taken as the value 0
Quantile_NullAsZero(vs, q) ==
    LET sorted == SortVals([i \in DOMAIN vs |-> IF IsNull(vs[i]) THEN Num(0) ELSE vs[i]])
        m      == Len(sorted)
    IN  IF m = 0 THEN Null ELSE sorted[((m - 1) * q + 50) \div 100 + 1]

\* the position counted from the top of the sorted values
Quantile_FromTop(vs, q) ==
    LET sorted == SortVals(SelectSeq(vs, LAMBDA v : ~IsNull(v)))
        m      == Len(sorted)
    IN  IF m = 0 THEN Null ELSE sorted[m - ((m - 1) * q + 50) \div 100]

\* pl.quantile(n, q/100), interpolation 'nearest': nulls are left out, the
\* value at position round((m - 1) * q / 100) of the m sorted values
Quantile(vs, q) ==
    LET sorted == SortVals(SelectSeq(vs, LAMBDA v : ~IsNull(v)))
        m      == Len(sorted)
    IN  IF m = 0 THEN Null ELSE sorted[((m - 1) * q + 50) \div 100 + 1]

\* the value of the last output in the group
First_Last(vs) == vs[Len(vs)]

\* pl.first(n) within a group
First(vs) == vs[1]

UbCols(names) == [i \in DOMAIN names |-> names[i] \o "_ub"]
LbCols(names) == [i \in DOMAIN names |-> names[i] \o "_lb"]

\* lines 241-254: concat, groupby wd_bin, first / quantiles, sort
Combine(results, df_names) ==
    LET rows  == Flatten([i \in DOMAIN results |-> results[i].rows])
        names == IF "uplift" \in Range(results[1].columns)
                 THEN Append(df_names, "uplift") ELSE df_names
        idx   == Uniq([i \in DOMAIN rows |-> rows[i]["wd_bin"]])
        cols  == <<"wd_bin">> \o names \o UbCols(names) \o LbCols(names)
                     \o CountCols(df_names)
        col(g, c) == [j \in DOMAIN g |-> g[j][c]]
        cell(g, c) ==
            IF c = "wd_bin" THEN g[1]["wd_bin"]
            ELSE IF c \in Range(names) THEN First(col(g, c))
            ELSE IF c \in Range(UbCols(names))
            THEN Quantile(col(g, names[CHOOSE i \in DOMAIN names : UbCols(names)[i] = c]), 95)
            ELSE IF c \in Range(LbCols(names))
            THEN Quantile(col(g, names[CHOOSE i \in DOMAIN names : LbCols(names)[i] = c]), 5)
            ELSE First(col(g, c))
    IN  SortByWdBin(Tbl(cols,
            [i \in DOMAIN idx |->
                LET g == SelectSeq(rows, LAMBDA r : r["wd_bin"] = idx[i])
                IN  [c \in Range(cols) |-> cell(g, c)]]))

\* line 148 and lines 181-214: the interfaces the orchestrator recognizes
Interfaces == {"serial", "multiprocessing", "mpi4py"}

\* er_in.resample_energy_table(i): index 0 is the table itself, any other
\* index a table of the same length whose rows are drawn with replacement
Resample(df_, d) == [j \in DOMAIN df_ |-> df_[d[j]]]
Identity(df_)    == [j \in DOMAIN df_ |-> j]
DrawsOf(df_, i)  == IF i = 0 THEN {Identity(df_)}
                    ELSE [DOMAIN df_ -> DOMAIN df_]

-----------------------------------------------------------------------------
(* compute_energy_ratio: argument values, validation, column names.        *)

\* Python argument values: None, a list or numpy array of elements, or
\* something else (here a tuple); an element is an int or a str
PyNone      == [t |-> "None", v |-> <<>>]
PyList(v)   == [t |-> "list", v |-> v]
PyTuple(v)  == [t |-> "tuple", v |-> v]
IntE(i)     == [t |-> "int", v |-> i]
StrE        == [t |-> "str", v |-> 0]

Ev(e, i, r) == [ev |-> e, i |-> i, r |-> r]

\* f'{i:03d}' of an integer: zero-padded to three digits
Format03d(i) ==
    IF i < 10 THEN "00" \o ToString(i)
    ELSE IF i < 100 THEN "0" \o ToString(i)
    ELSE ToString(i)

\* every element formatted whatever its type
ColumnNames_AnyElement(prefix, turbines) ==
    IF turbines.t = "None"
    THEN [ok |-> FALSE, cols |-> <<>>]
    ELSE [ok |-> TRUE,
          cols |-> [j \in DOMAIN turbines.v |->
                       prefix \o "_" \o Format03d(turbines.v[j].v)]]

\* [f'<prefix>_{i:03d}' for i in turbines]: raises when turbines cannot be
\* iterated (None) and when an element is not an integer (format code 'd')
ColumnNames(prefix, turbines) ==
    IF turbines.t = "None" \/ \E j \in DOMAIN turbines.v : turbines.v[j].t # "int"
    THEN [ok |-> FALSE, cols |-> <<>>]
    ELSE [ok |-> TRUE,
          cols |-> [j \in DOMAIN turbines.v |->
                       prefix \o "_" \o Format03d(turbines.v[j].v)]]

\* a missing turbine list passes the check
SourceCheck_ListOptional(use_predefined, column, turbines) ==
    IF use_predefined
    THEN IF column \notin present THEN "missing_column"
         ELSE IF turbines.t # "None" THEN "warn" ELSE "ok"
    ELSE "ok"

\* lines 313-322, 325-334, 337-346: one source's check
SourceCheck(use_predefined, column, turbines) ==
    IF use_predefined
    THEN IF column \notin present THEN "missing_column"
         ELSE IF turbines.t # "None" THEN "warn" ELSE "ok"
    ELSE IF turbines.t = "None" THEN "missing_turbines" ELSE "ok"

Failed(c) == c \in {"missing_column", "missing_turbines"}
Warned(c, name) == IF c = "warn" THEN <<Ev("warn_" \o name, 0, 0)>> ELSE <<>>

\* the radius compared with wd_step instead of wd_step/2
RadiusTooLarge_WholeStep(wd_bin_overlap_radius) == wd_bin_overlap_radius > wd_step

\* line 358: wd_bin_overlap_radius > wd_step/2
RadiusTooLarge(wd_bin_overlap_radius) == 2 * wd_bin_overlap_radius > wd_step

\* a supplied turbine list wins over the predefined column
SourceCols_ListWins(use_predefined, column, prefix, turbines) ==
    IF turbines.t # "None" THEN ColumnNames(prefix, turbines)
    ELSE [ok |-> TRUE, cols |-> <<column>>]

\* lines 362-375: the column list of one source
SourceCols(use_predefined, column, prefix, turbines) ==
    IF ~use_predefined THEN ColumnNames(prefix, turbines)
    ELSE [ok |-> TRUE, cols |-> <<column>>]

Resolved(err, lg, ref_cols, ws_cols, wd_cols, test_cols) ==
    [err |-> err, log |-> lg, ref_cols |-> ref_cols, ws_cols |-> ws_cols,
     wd_cols |-> wd_cols, test_cols |-> test_cols]

Raise(err, lg) == Resolved(err, lg, <<>>, <<>>, <<>>, <<>>)

\* lines 309-381: get_df, the checks in order, the column names
Validation(a) ==
    LET ref  == SourceCheck(a.use_predefined_ref, "pow_ref", a.ref_turbines)
        ws   == SourceCheck(a.use_predefined_ws, "ws", a.ws_turbines)
        wd   == SourceCheck(a.use_predefined_wd, "wd", a.wd_turbines)
        l0   == <<Ev("get_df", 0, 0)>>
        l1   == l0 \o Warned(ref, "ref_turbines")
        l2   == l1 \o Warned(ws, "ws_turbines")
        l3   == l2 \o Warned(wd, "wd_turbines")
        rc   == SourceCols(a.use_predefined_ref, "pow_ref", "pow", a.ref_turbines)
        sc   == SourceCols(a.use_predefined_ws, "ws", "ws", a.ws_turbines)
        dc   == SourceCols(a.use_predefined_wd, "wd", "wd", a.wd_turbines)
        tc   == ColumnNames("pow", a.test_turbines)
    IN  IF Failed(ref) THEN Raise("ref:" \o ref, l0)
        ELSE IF Failed(ws) THEN Raise("ws:" \o ws, l1)
        ELSE IF Failed(wd) THEN Raise("wd:" \o wd, l2)
        ELSE IF a.test_turbines.t \notin {"list", "ndarray"}
        THEN Raise("test_turbines must be a list or numpy array of ints", l3)
        ELSE IF Len(a.test_turbines.v) = 0
        THEN Raise("test_turbines cannot be empty", l3)
        ELSE IF RadiusTooLarge(a.wd_bin_overlap_radius)
        THEN Raise("wd_bin_overlap_radius must be less than or equal to wd_step/2", l3)
        ELSE IF ~rc.ok \/ ~sc.ok \/ ~dc.ok \/ ~tc.ok
        THEN Raise("format code 'd'", l3)
        ELSE Resolved("", l3, rc.cols, sc.cols, dc.cols, tc.cols)

\* the orders df_['df_name'].unique() can return the distinct names in
\* (line 378: unique() without maintain_order)
UniqueOrders(df_) ==
    LET S == {df_[i]["df_name"] : i \in DOMAIN df_}
    IN  {q \in [1..Cardinality(S) -> S] : \A n \in S : \E i \in DOMAIN q : q[i] = n}

\* lines 401-415: the interface the orchestrator is called with; the call
\* passes no parallell_interface, so the default of line 148 applies
PassedInterface(a) == "serial"

BootParams(df_names, v, a) ==
    [df_names |-> df_names, ref_cols |-> v.ref_cols, test_cols |-> v.test_cols,
     wd_cols |-> v.wd_cols, ws_cols |-> v.ws_cols,
     wd_bin_overlap_radius |-> a.wd_bin_overlap_radius, N |-> a.N,
     parallell_interface |-> PassedInterface(a)]

NoBoot == [df_names |-> <<>>, ref_cols |-> <<>>, test_cols |-> <<>>,
           wd_cols |-> <<>>, ws_cols |-> <<>>, wd_bin_overlap_radius |-> 0,
           N |-> 0, parallell_interface |-> ""]

-----------------------------------------------------------------------------
(* Observation tables.                                                     *)

MaxRows       == 3
MaxWeightRows == 4
MaxPairs      == 2
MaxBootRows   == 2
MaxN          == 2

\* one time sample: turbine 0 and turbine 1 power, turbine 1 wind speed and
\* direction, and the predefined columns (read only when `present` has them)
MkRow(name, wd, ws, ref, test) ==
    [df_name |-> name, pow_000 |-> test, pow_001 |-> ref,
     ws_001 |-> ws, wd_001 |-> wd, pow_ref |-> ref, ws |-> ws, wd |-> wd]

Names    == {"A", "B"}
WdValues == {Num(1), Num(2)}
\* <<wind speed, reference power, test power>> of a sample
Samples       == {<<Num(7), Num(1), Num(10)>>, <<Num(8), Num(2), Num(0)>>}
SamplesWeight == {<<Num(7), Num(1), Num(10)>>, <<Num(7), Num(2), Num(0)>>,
                  <<Num(8), Num(2), Num(10)>>}

PredefinedColumns == {"pow_ref", "ws", "wd"}

NoCall == [fn |-> "none"]

InitCommon ==
    /\ paired = TRUE
    /\ args = NoCall
    /\ pc = "idle"
    /\ draws = <<>>
    /\ outs = <<>>
    /\ boot = NoBoot
    /\ log = <<>>
    /\ out = Err("")

\* a sample of one condition is appended to the table
AddRow(name, wd, s, limit) ==
    /\ pc = "idle"
    /\ Len(table) < limit
    /\ table' = Append(table, MkRow(name, wd, s[1], s[2], s[3]))
    /\ paired' = FALSE
    /\ UNCHANGED <<present, args, pc, draws, outs, boot, log, out>>

\* a sample of A and its twin of B (same wind, same reference power, test
\* power exactly 1.10 times A's) are appended
AddPair(wd, s) ==
    /\ pc = "idle"
    /\ Len(table) < 2 * MaxPairs
    /\ table' = table \o <<MkRow("A", wd, s[1], s[2], s[3]),
                           MkRow("B", wd, s[1], s[2], MulR(s[3], Rat(11, 10)))>>
    /\ UNCHANGED <<present, paired, args, pc, draws, outs, boot, log, out>>

-----------------------------------------------------------------------------
(* The reducer called on its own.                                          *)

RefCols  == <<"pow_001">>
TestCols == <<"pow_000">>
WdCols   == <<"wd_001">>
WsCols   == <<"ws_001">>

DfNamesSingle == {<<"A">>, <<"A", "B">>, <<"B", "A">>}
Radii         == {0, 1}

Single(df_names, radius) ==
    /\ pc = "idle"
    /\ args' = [fn |-> "single", df_names |-> df_names, radius |-> radius]
    /\ out' = _compute_energy_ratio_single(table, df_names, RefCols, TestCols,
                                           WdCols, WsCols, radius)
    /\ pc' = "done"
    /\ UNCHANGED <<table, present, paired, draws, outs, boot, log>>

InitSingle == table = <<>> /\ present = {} /\ InitCommon

NextSingle ==
    \/ \E name \in Names, wd \in WdValues, s \in Samples : AddRow(name, wd, s, MaxRows)
    \/ \E df_names \in DfNamesSingle, radius \in Radii : Single(df_names, radius)

SpecSingle == InitSingle /\ [][NextSingle]_vars

\* the reducer on one wind direction with several samples per cell
NextWeight ==
    \/ \E name \in Names, s \in SamplesWeight : AddRow(name, Num(1), s, MaxWeightRows)
    \/ \E df_names \in DfNamesSingle : Single(df_names, 0)

SpecWeight == InitSingle /\ [][NextWeight]_vars

\* the reducer on tables made of A/B pairs only
NextPaired ==
    \/ \E wd \in WdValues, s \in SamplesWeight : AddPair(wd, s)
    \/ \E df_names \in DfNamesSingle, radius \in Radii : Single(df_names, radius)

SpecPaired == InitSingle /\ [][NextPaired]_vars

-----------------------------------------------------------------------------
(* The bootstrap loop (serial interface), one resample per step.           *)

\* lines 181-214: the orchestrator is entered; an interface outside the
\* recognized ones raises
BootEnter(b) ==
    IF b.parallell_interface \in Interfaces
    THEN /\ boot' = b
         /\ pc' = "boot"
         /\ out' = out
    ELSE /\ boot' = b
         /\ pc' = "done"
         /\ out' = Err("UserWarning: interface not recognized")

\* the indices counted from 1
Indices_FromOne(N) == [k \in 1..N |-> k]

\* lines 182 and 196: the resample indices, for i in range(N)
Indices(N) == [k \in 1..N |-> k - 1]

\* lines 182-196: resample i, then the reducer on it; an exception of the
\* reducer ends the call
BootStep(d) ==
    /\ pc = "boot"
    /\ boot.parallell_interface = "serial"
    /\ Len(outs) < boot.N
    /\ d \in DrawsOf(table, Indices(boot.N)[Len(outs) + 1])
    /\ LET i == Indices(boot.N)[Len(outs) + 1]
           r == _compute_energy_ratio_single(Resample(table, d), boot.df_names,
                    boot.ref_cols, boot.test_cols, boot.wd_cols, boot.ws_cols,
                    boot.wd_bin_overlap_radius)
       IN  /\ draws' = Append(draws, d)
           /\ log' = log \o <<Ev("resample", i, 0),
                              Ev("single", i, boot.wd_bin_overlap_radius)>>
           /\ IF r.ok
              THEN outs' = Append(outs, r) /\ UNCHANGED <<pc, out>>
              ELSE out' = r /\ pc' = "done" /\ UNCHANGED outs
    /\ UNCHANGED <<table, present, paired, args, boot>>

\* lines 241-254: the N outputs are combined and returned
BootCombine ==
    /\ pc = "boot"
    /\ Len(outs) = boot.N
    /\ out' = Combine(outs, boot.df_names)
    /\ pc' = "done"
    /\ UNCHANGED <<table, present, paired, args, draws, outs, boot, log>>

\* _compute_energy_ratio_bootstrap called on its own
BootCall(df_names, radius, N, parallell_interface) ==
    /\ pc = "idle"
    /\ args' = [fn |-> "bootstrap", df_names |-> df_names, N |-> N,
                parallell_interface |-> parallell_interface]
    /\ BootEnter([df_names |-> df_names, ref_cols |-> RefCols, test_cols |-> TestCols,
                  wd_cols |-> WdCols, ws_cols |-> WsCols,
                  wd_bin_overlap_radius |-> radius, N |-> N,
                  parallell_interface |-> parallell_interface])
    /\ UNCHANGED <<table, present, paired, draws, outs, log>>

BootRows == {<<"A", Num(1), Num(7), Num(1), Num(10)>>,
             <<"A", Num(1), Num(8), Num(2), Num(0)>>,
             <<"B", Num(1), Num(7), Num(1), Num(10)>>,
             <<"B", Num(2), Num(8), Num(2), Num(10)>>}

NextBoot ==
    \/ \E r \in BootRows : AddRow(r[1], r[2], <<r[3], r[4], r[5]>>, MaxBootRows)
    \/ \E df_names \in {<<"A">>, <<"A", "B">>}, N \in 2..MaxN,
          p \in {"serial", "bogus"} : BootCall(df_names, 0, N, p)
    \/ /\ pc = "boot"
       /\ \E d \in [DOMAIN table -> DOMAIN table] : BootStep(d)
    \/ BootCombine

SpecBoot == InitSingle /\ [][NextBoot]_vars

-----------------------------------------------------------------------------
(* The public entry point.                                                 *)

Turbines     == {PyNone, PyList(<<IntE(1)>>)}
TestTurbines == {PyNone, PyTuple(<<IntE(0)>>), PyList(<<>>), PyList(<<IntE(0)>>),
                 PyList(<<IntE(0), StrE>>)}
EntryRadii   == {-1, 0, 1, 2}
EntryDfNames == {PyNone, PyList(<<"A", "B">>)}
\* N and parallell_interface; the interface is read on the bootstrap path only
Dispatch     == {<<1, "serial">>} \cup
                {<<n, p>> : n \in 2..MaxN, p \in {"serial", "multiprocessing", "bogus"}}

ArgSets ==
    [fn : {"compute_energy_ratio"}, df_names : EntryDfNames,
     ref_turbines : Turbines, test_turbines : TestTurbines,
     wd_turbines : Turbines, ws_turbines : Turbines,
     use_predefined_ref : BOOLEAN, use_predefined_wd : BOOLEAN,
     use_predefined_ws : BOOLEAN, wd_bin_overlap_radius : EntryRadii,
     N : 1..MaxN, parallell_interface : {"serial", "multiprocessing", "bogus"}]

\* compute_energy_ratio up to its dispatch: validation, then the reducer for
\* N = 1 or the entry into the orchestrator for N > 1
Call(a, uniq) ==
    /\ pc = "idle"
    /\ args' = a
    /\ LET v        == Validation(a)
           df_names == IF a.df_names.t = "None" THEN uniq ELSE a.df_names.v
       IN  IF v.err # ""
           THEN /\ out' = Err(v.err)
                /\ log' = v.log
                /\ pc' = "done"
                /\ UNCHANGED boot
           ELSE IF a.N = 1
           THEN /\ out' = _compute_energy_ratio_single(table, df_names, v.ref_cols,
                              v.test_cols, v.wd_cols, v.ws_cols,
                              a.wd_bin_overlap_radius)
                /\ log' = v.log \o <<Ev("single", 0, a.wd_bin_overlap_radius)>>
                /\ pc' = "done"
                /\ boot' = BootParams(df_names, v, a)
           ELSE /\ log' = v.log
                /\ BootEnter(BootParams(df_names, v, a))
    /\ UNCHANGED <<table, present, paired, draws, outs>>

EntryTables ==
    {<<MkRow("A", Num(1), Num(7), Num(1), Num(10)),
       MkRow("B", Num(1), Num(7), Num(2), Num(10))>>,
     <<MkRow("A", Num(1), Num(7), Num(1), Num(10)),
       MkRow("A", Num(1), Num(8), Num(2), Num(0))>>}

Init ==
    /\ table \in EntryTables
    /\ present \in SUBSET PredefinedColumns
    /\ InitCommon

Next ==
    \/ /\ pc = "idle"
       /\ \E a \in ArgSets :
             /\ <<a.N, a.parallell_interface>> \in Dispatch
             /\ \E uniq \in IF a.df_names.t = "None" THEN UniqueOrders(table)
                            ELSE {a.df_names.v} : Call(a, uniq)
    \/ /\ pc = "boot"
       /\ \E d \in [DOMAIN table -> DOMAIN table] : BootStep(d)
    \/ BootCombine

Spec == Init /\ [][Next]_vars

-----------------------------------------------------------------------------
(* Properties of the single-pass reducer.                                  *)

SingleReturned == pc = "done" /\ args.fn = "single" /\ out.ok

\* C1: a single-pass call that returns a table returns the columns wd_bin,
\* then the names of df_names in order, then uplift exactly when df_names has
\* two names, then count_<name> in df_names order, and nothing else.
C1_ColumnOrder ==
    SingleReturned =>
        LET n      == args.df_names
            expect == <<"wd_bin">> \o n
                        \o (IF Len(n) = 2 THEN <<"uplift">> ELSE <<>>)
                        \o [i \in DOMAIN n |-> "count_" \o n[i]]
        IN  /\ out.columns = expect
            /\ \A j \in DOMAIN out.rows : DOMAIN out.rows[j] = Range(expect)

\* a two-condition call returned rows with the uplift column in fourth place
C1_Witness ==
    /\ SingleReturned
    /\ args.df_names = <<"B", "A">>
    /\ Len(out.rows) > 0
    /\ out.columns = <<"wd_bin", "B", "A", "uplift", "count_B", "count_A">>

NumBinsInRange == ((wd_max - wd_min) + wd_step - 1) \div wd_step

\* C2: the result has one row per wind-direction bin: wd_bin is a bin label,
\* strictly ascending down the rows, and there are at most as many rows as
\* bins of width wd_step in [wd_min, wd_max).
C2_OneRowPerBin ==
    SingleReturned =>
        /\ \A j \in DOMAIN out.rows :
              /\ IsNum(out.rows[j]["wd_bin"])
              /\ ~LessInt(out.rows[j]["wd_bin"], wd_min)
              /\ LessInt(out.rows[j]["wd_bin"], wd_max)
        /\ \A j, k \in DOMAIN out.rows :
              j < k => Less(out.rows[j]["wd_bin"], out.rows[k]["wd_bin"])
        /\ Len(out.rows) <= NumBinsInRange

\* both conditions and both wind speeds fall into two bins given in
\* descending order, and the result has the two bins in ascending order
C2_Witness ==
    /\ SingleReturned
    /\ Len(table) = 3
    /\ table[1]["wd_001"] = Num(2) /\ table[2]["wd_001"] = Num(1)
    /\ table[1]["df_name"] # table[3]["df_name"]
    /\ table[1]["ws_001"] # table[3]["ws_001"]
    /\ Len(out.rows) = 2
    /\ out.rows[1]["wd_bin"] = Num(0) /\ out.rows[2]["wd_bin"] = Num(2)

\* the rows of condition n in the cell (b, w), and what the claim derives
\* from them
C3_Rows(b, w, n) ==
    SelectSeq(table, LAMBDA r : /\ r["df_name"] = n
                                /\ add_wd_bin(add_wd(r, WdCols)) = b
                                /\ add_ws_bin(r, WsCols) = w)
C3_Count(b, w, n) == Len(C3_Rows(b, w, n))
C3_CountMin(b, w) == MinOf({C3_Count(b, w, n) : n \in Names} \ {0})
C3_Mean(b, w, n, c) ==
    LET rows == C3_Rows(b, w, n)
    IN  MulR(SumSeq([j \in DOMAIN rows |-> rows[j][c]]), Rat(1, Len(rows)))
C3_WsBins(b, n) ==
    LET mine == SelectSeq(table, LAMBDA r : /\ r["df_name"] = n
                                            /\ add_wd_bin(add_wd(r, WdCols)) = b)
    IN  Uniq([j \in DOMAIN mine |-> add_ws_bin(mine[j], WsCols)])
C3_Ratio(b, n) ==
    LET w      == C3_WsBins(b, n)
        cm     == [k \in DOMAIN w |-> Num(C3_CountMin(b, w[k]))]
        e(c)   == SumSeq([k \in DOMAIN w |-> MulR(C3_Mean(b, w[k], n, c), cm[k])])
    IN  IF w = <<>> THEN Null ELSE FDiv(e("pow_000"), e("pow_001"))
\* the ratio of the unweighted sums of the condition's rows in the bin
C3_Unweighted(b, n) ==
    LET mine == SelectSeq(table, LAMBDA r : /\ r["df_name"] = n
                                            /\ add_wd_bin(add_wd(r, WdCols)) = b)
    IN  FDiv(SumSeq([j \in DOMAIN mine |-> mine[j]["pow_000"]]),
             SumSeq([j \in DOMAIN mine |-> mine[j]["pow_001"]]))

\* C3: in every (wd_bin, ws_bin) cell every condition present is weighted by
\* the minimum row count over the conditions present in the cell; its
\* energies are its mean powers times that count_min, and its ratio in a
\* wd bin is the sum of its test energies over the ws bins divided by the
\* sum of its reference energies.
C3_CountWeighting ==
    SingleReturned =>
        /\ LET sa == StageA(FilterBins(Binned(
                         WithWd(FilterNotNull(table,
                                    RefCols \o TestCols \o WsCols \o WdCols),
                                WdCols, args.radius),
                         RefCols, TestCols, WsCols)))
           IN  \A i \in DOMAIN sa :
                  LET g  == sa[i]
                      cm == C3_CountMin(g.wd_bin, g.ws_bin)
                  IN  /\ g.count_min = cm
                      /\ g.ref_energy =
                            MulR(C3_Mean(g.wd_bin, g.ws_bin, g.df_name, "pow_001"), Num(cm))
                      /\ g.test_energy =
                            MulR(C3_Mean(g.wd_bin, g.ws_bin, g.df_name, "pow_000"), Num(cm))
        /\ \A j \in DOMAIN out.rows : \A i \in DOMAIN args.df_names :
              out.rows[j][args.df_names[i]] =
                  C3_Ratio(out.rows[j]["wd_bin"], args.df_names[i])

\* A has two rows and B one row in a cell, so both are weighted by 1 there,
\* and the ratio returned for A is not the ratio of A's unweighted sums
C3_Witness ==
    /\ SingleReturned
    /\ \E w \in {Num(7), Num(8)} :
          /\ C3_Count(Num(0), w, "A") = 2
          /\ C3_Count(Num(0), w, "B") = 1
          /\ C3_CountMin(Num(0), w) = 1
    /\ Len(out.rows) = 1
    /\ IsNum(out.rows[1]["A"])
    /\ out.rows[1]["A"] # C3_Unweighted(Num(0), "A")

\* the original statement of C4: with rows paired (same wind, same non-zero
\* reference power, B's test power 1.10 times A's) the uplift of B over A is
\* 10 in every populated wd bin
C4_UpliftTenEverywhere ==
    (SingleReturned /\ paired /\ args.df_names = <<"A", "B">>) =>
        \A j \in DOMAIN out.rows : out.rows[j]["uplift"] = Num(10)

\* C4 (amended): with rows paired as above, the uplift of B over A is 10 in
\* every populated wd bin in which A's energy ratio is not zero; where A's
\* energy ratio is zero (no test power in the bin) the uplift is NaN.
C4_UpliftTenWhereRatioNonZero ==
    (SingleReturned /\ paired /\ args.df_names = <<"A", "B">>) =>
        \A j \in DOMAIN out.rows :
            /\ IsNum(out.rows[j]["A"])
            /\ out.rows[j]["B"] = MulR(out.rows[j]["A"], Rat(11, 10))
            /\ out.rows[j]["uplift"] =
                  IF out.rows[j]["A"] = Num(0) THEN NaN ELSE Num(10)

\* two pairs in two wind-speed bins of one wd bin, and the uplift is 10
C4_Witness ==
    /\ SingleReturned /\ paired /\ args.df_names = <<"A", "B">>
    /\ Len(table) = 4
    /\ table[1]["ws_001"] # table[3]["ws_001"]
    /\ Len(out.rows) = 1
    /\ out.rows[1]["A"] # Num(0)
    /\ out.rows[1]["uplift"] = Num(10)

-----------------------------------------------------------------------------
(* Properties of the public entry point.                                   *)

EntryCalled == args.fn = "compute_energy_ratio"
EntryDone   == EntryCalled /\ pc = "done"

\* the events of the log that read a resample or run the reducer
Computed == {i \in DOMAIN log : log[i].ev \in {"resample", "single"}}
Events   == {log[i].ev : i \in DOMAIN log}

\* the original statement of C5: with use_predefined_ref = False and
\* ref_turbines = None the call raises before get_df, before any resample
\* and before any reducer pass
C5_ErrorBeforeGetDf ==
    (EntryCalled /\ ~args.use_predefined_ref /\ args.ref_turbines = PyNone) =>
        /\ pc = "done" /\ ~out.ok
        /\ log = <<>>

\* C5 (amended): with use_predefined_ref = False and ref_turbines = None the
\* call raises the missing-reference error after the table has been read
\* from the input holder (get_df, once) and before any warning, any resample
\* and any reducer pass.
C5_ErrorRightAfterGetDf ==
    (EntryCalled /\ ~args.use_predefined_ref /\ args.ref_turbines = PyNone) =>
        /\ pc = "done" /\ ~out.ok
        /\ out.err = "ref:missing_turbines"
        /\ log = <<Ev("get_df", 0, 0)>>
        /\ outs = <<>> /\ draws = <<>> /\ boot = NoBoot

\* the reference list is missing, every other argument is valid
C5_Witness ==
    /\ EntryDone
    /\ ~args.use_predefined_ref /\ args.ref_turbines = PyNone
    /\ ~args.use_predefined_ws /\ args.ws_turbines = PyList(<<IntE(1)>>)
    /\ ~args.use_predefined_wd /\ args.wd_turbines = PyList(<<IntE(1)>>)
    /\ args.test_turbines = PyList(<<IntE(0)>>)
    /\ args.wd_bin_overlap_radius = 0
    /\ args.N = 2
    /\ ~out.ok /\ log = <<Ev("get_df", 0, 0)>>

\* what C6 calls a bad source selection
C6_Bad(flag, column, turbines) ==
    \/ flag /\ column \notin present
    \/ ~flag /\ turbines = PyNone
C6_BadRef == C6_Bad(args.use_predefined_ref, "pow_ref", args.ref_turbines)
C6_BadWs  == C6_Bad(args.use_predefined_ws, "ws", args.ws_turbines)
C6_BadWd  == C6_Bad(args.use_predefined_wd, "wd", args.wd_turbines)
C6_FirstBad == IF C6_BadRef THEN "ref" ELSE IF C6_BadWs THEN "ws"
               ELSE IF C6_BadWd THEN "wd" ELSE ""
C6_SourceErrors ==
    {src \o ":" \o k : src \in {"ref", "ws", "wd"},
                       k \in {"missing_column", "missing_turbines"}}
C6_Ignored(flag, turbines, name, resolved, column) ==
    /\ ("warn_" \o name \in Events) <=> (flag /\ turbines # PyNone)
    /\ (flag /\ boot # NoBoot) => resolved = <<column>>

\* C6: the call fails with a source-selection error exactly when one of the
\* three sources has (flag set and predefined column absent) or (flag not set
\* and turbine list missing), and the error is that of the first such source
\* in the order ref, ws, wd; when no source is bad, a turbine list supplied
\* with the flag set gives a warning and the resolved column list of that
\* source is the single predefined column.
C6_SourceSelection ==
    EntryCalled =>
        /\ C6_FirstBad # "" =>
              /\ pc = "done" /\ ~out.ok
              /\ out.err \in {C6_FirstBad \o ":missing_column",
                              C6_FirstBad \o ":missing_turbines"}
              /\ Computed = {}
        /\ C6_FirstBad = "" =>
              /\ out.err \notin C6_SourceErrors
              /\ C6_Ignored(args.use_predefined_ref, args.ref_turbines,
                            "ref_turbines", boot.ref_cols, "pow_ref")
              /\ C6_Ignored(args.use_predefined_ws, args.ws_turbines,
                            "ws_turbines", boot.ws_cols, "ws")
              /\ C6_Ignored(args.use_predefined_wd, args.wd_turbines,
                            "wd_turbines", boot.wd_cols, "wd")

\* the reference flag is set, pow_ref is in the table and a reference list is
\* supplied too: the call warns, returns a table and used pow_ref
C6_Witness ==
    /\ EntryDone /\ out.ok
    /\ args.use_predefined_ref /\ "pow_ref" \in present
    /\ args.ref_turbines = PyList(<<IntE(1)>>)
    /\ ~args.use_predefined_ws /\ ~args.use_predefined_wd
    /\ "warn_ref_turbines" \in Events
    /\ boot.ref_cols = <<"pow_ref">>
    /\ boot.ws_cols = <<"ws_001">>

\* a non-empty list or array of integers
C7_Good(t) ==
    /\ t.t \in {"list", "ndarray"}
    /\ Len(t.v) > 0
    /\ \A j \in DOMAIN t.v : t.v[j].t = "int"

\* C7: when test_turbines is missing, not a list or array, empty, or has an
\* element that is not an integer, the call fails and no reducer pass or
\* resample is run; the call reaches the reducer or the orchestrator only
\* with a non-empty list of integers, and does reach it then when the other
\* arguments are valid.
C7_TestTurbines ==
    EntryCalled =>
        /\ ~C7_Good(args.test_turbines) =>
              /\ pc = "done" /\ ~out.ok
              /\ Computed = {} /\ outs = <<>> /\ boot = NoBoot
        /\ boot # NoBoot => C7_Good(args.test_turbines)
        /\ (/\ C7_Good(args.test_turbines)
            /\ C6_FirstBad = ""
            /\ 2 * args.wd_bin_overlap_radius <= wd_step) =>
              /\ boot # NoBoot
              /\ boot.test_cols = <<"pow_000">>

\* a list with an integer and a string, every other argument valid: the call
\* fails when the column names are formatted
C7_Witness ==
    /\ EntryDone
    /\ args.test_turbines = PyList(<<IntE(0), StrE>>)
    /\ C6_FirstBad = ""
    /\ args.wd_bin_overlap_radius = 1
    /\ ~out.ok /\ out.err = "format code 'd'"
    /\ Computed = {}

\* the original statement of C8: a radius above wd_step/2 or below 0 fails
\* before any computation, and every reducer pass has a radius in
\* [0, wd_step/2]
C8_RadiusBothBounds ==
    EntryCalled =>
        /\ (2 * args.wd_bin_overlap_radius > wd_step
                \/ args.wd_bin_overlap_radius < 0) =>
              /\ pc = "done" /\ ~out.ok
              /\ Computed = {}
        /\ \A i \in DOMAIN log :
              log[i].ev = "single" => log[i].r >= 0 /\ 2 * log[i].r <= wd_step

\* C8 (amended): only the upper bound is enforced: a radius above wd_step/2
\* fails before any computation and every reducer pass has a radius of at
\* most wd_step/2; a radius below 0 is accepted and the reducer treats it as
\* radius 0 (no row is reflected).
C8_RadiusUpperBound ==
    EntryCalled =>
        /\ 2 * args.wd_bin_overlap_radius > wd_step =>
              /\ pc = "done" /\ ~out.ok
              /\ Computed = {} /\ outs = <<>> /\ boot = NoBoot
        /\ \A i \in DOMAIN log :
              log[i].ev = "single" =>
                  /\ 2 * log[i].r <= wd_step
                  /\ log[i].r = args.wd_bin_overlap_radius
        /\ (args.wd_bin_overlap_radius < 0 /\ C7_Good(args.test_turbines)
                /\ C6_FirstBad = "") =>
              /\ boot # NoBoot
              /\ (pc = "done" /\ args.N = 1) =>
                    out = _compute_energy_ratio_single(table, boot.df_names,
                              boot.ref_cols, boot.test_cols, boot.wd_cols,
                              boot.ws_cols, 0)

\* a call with radius -1 returned a table
C8_Witness ==
    /\ EntryDone /\ out.ok
    /\ args.wd_bin_overlap_radius = -1
    /\ args.N = 1
    /\ Len(out.rows) = 1
    /\ \E i \in DOMAIN log : log[i] = Ev("single", 0, -1)

\* C9: a bootstrap run requested through compute_energy_ratio with an
\* interface outside the recognized ones fails and returns no table, and the
\* orchestrator is entered with the interface the caller named.
C9_UnknownStrategyFails ==
    (EntryCalled /\ args.N > 1 /\ boot # NoBoot) =>
        /\ boot.parallell_interface = args.parallell_interface
        /\ args.parallell_interface \notin Interfaces =>
              /\ pc = "done" /\ ~out.ok
              /\ Computed = {}

-----------------------------------------------------------------------------
(* Properties of the bootstrap orchestrator.                               *)

BootReturned == pc = "done" /\ args.fn = "bootstrap" /\ out.ok

\* the ratio columns and the uplift column of a result
PointCols(df_names) ==
    Range(df_names) \cup (IF Len(df_names) = 2 THEN {"uplift"} ELSE {})

\* C10: with resample 0 the table itself, every row of the bootstrap result
\* has, in every ratio column and in the uplift column, exactly the value the
\* single-pass reducer gives for that wd bin on the table.
C10_PointEstimate ==
    BootReturned =>
        LET s == _compute_energy_ratio_single(table, args.df_names, RefCols,
                     TestCols, WdCols, WsCols, boot.wd_bin_overlap_radius)
        IN  /\ s.ok
            /\ draws[1] = Identity(table)
            /\ outs[1] = s
            /\ \A j \in DOMAIN out.rows :
                  \E k \in DOMAIN s.rows :
                      /\ s.rows[k]["wd_bin"] = out.rows[j]["wd_bin"]
                      /\ \A c \in PointCols(args.df_names) :
                            out.rows[j][c] = s.rows[k][c]

\* a resample of index 1 gave another ratio for the bin than resample 0
C10_Witness ==
    /\ BootReturned
    /\ args.df_names = <<"A">>
    /\ Len(outs) = 2
    /\ Len(out.rows) = 1
    /\ outs[1].rows[1]["wd_bin"] = outs[2].rows[1]["wd_bin"]
    /\ outs[1].rows[1]["A"] # outs[2].rows[1]["A"]
    /\ out.rows[1]["A"] = outs[1].rows[1]["A"]
    /\ out.rows[1]["A_ub"] = outs[2].rows[1]["A"]

-----------------------------------------------------------------------------
(* The orchestrator on tables with gaps: a wd bin that one condition does  *)
(* not reach, and test powers of zero.                                     *)

GapTables ==
    {<<MkRow("A", Num(1), Num(7), Num(1), Num(10)),
       MkRow("B", Num(1), Num(7), Num(1), Num(20)),
       MkRow("B", Num(2), Num(8), Num(2), Num(10))>>,
     <<MkRow("A", Num(1), Num(7), Num(1), Num(10)),
       MkRow("A", Num(1), Num(8), Num(2), Num(0)),
       MkRow("B", Num(1), Num(7), Num(1), Num(0))>>}

InitGaps == table \in GapTables /\ present = {} /\ InitCommon

NextGaps ==
    \/ \E df_names \in {<<"A">>, <<"A", "B">>}, N \in 2..MaxN :
          BootCall(df_names, 0, N, "serial")
    \/ /\ pc = "boot"
       /\ \E d \in [DOMAIN table -> DOMAIN table] : BootStep(d)
    \/ BootCombine

SpecGaps == InitGaps /\ [][NextGaps]_vars

\* the values the resamples gave for column c in wd bin b, in list order
ResampleValues(b, c) ==
    LET rows == Flatten([i \in DOMAIN outs |-> outs[i].rows])
        mine == SelectSeq(rows, LAMBDA r : r["wd_bin"] = b)
    IN  [j \in DOMAIN mine |-> mine[j][c]]

\* a <= b as a float comparison: false when either side is NaN
LeqIEEE(a, b) ==
    IF a.k = "nan" \/ b.k = "nan" THEN FALSE
    ELSE IF a.k = "inf" THEN a.n < 0 \/ (b.k = "inf" /\ b.n > 0)
    ELSE IF b.k = "inf" THEN b.n > 0
    ELSE ~Less(b, a)

\* the original statement of C11: in every row of a bootstrap result and every
\* ratio or uplift column with a non-null value among the resamples, the
\* lower bound is less than or equal to the upper bound
C11_LowerLeqUpper ==
    BootReturned =>
        \A j \in DOMAIN out.rows : \A c \in PointCols(args.df_names) :
            LET vs == ResampleValues(out.rows[j]["wd_bin"], c)
            IN  (\E i \in DOMAIN vs : ~IsNull(vs[i])) =>
                    LeqIEEE(out.rows[j][c \o "_lb"], out.rows[j][c \o "_ub"])

\* C11 (amended): in every row of a bootstrap result and every ratio or
\* uplift column with a non-null value among the resamples, both bounds are
\* non-null; the lower bound is less than or equal to the upper bound when no
\* resample value of that bin and column is NaN, and a bound is NaN only when
\* some resample value is NaN (the lower bound only when the upper one is).
C11_LowerLeqUpperUnlessNaN ==
    BootReturned =>
        \A j \in DOMAIN out.rows : \A c \in PointCols(args.df_names) :
            LET vs == ResampleValues(out.rows[j]["wd_bin"], c)
                lb == out.rows[j][c \o "_lb"]
                ub == out.rows[j][c \o "_ub"]
                nan == \E i \in DOMAIN vs : vs[i] = NaN
            IN  (\E i \in DOMAIN vs : ~IsNull(vs[i])) =>
                    /\ ~IsNull(lb) /\ ~IsNull(ub)
                    /\ ~nan => LeqIEEE(lb, ub)
                    /\ (lb = NaN \/ ub = NaN) => nan
                    /\ lb = NaN => ub = NaN

\* two resamples gave two finite ratios: the bounds differ and are in order
C11_Witness ==
    /\ BootReturned
    /\ args.df_names = <<"A">>
    /\ Len(out.rows) = 1
    /\ IsNum(out.rows[1]["A_lb"]) /\ IsNum(out.rows[1]["A_ub"])
    /\ Less(out.rows[1]["A_lb"], out.rows[1]["A_ub"])

\* the rows of condition n that resample i has in wd bin b
C12_Rows(i, b, n) ==
    SelectSeq(Resample(table, draws[i]),
              LAMBDA r : r["df_name"] = n /\ add_wd_bin(add_wd(r, WdCols)) = b)

\* v stands at the position of the q-th percentile (interpolation 'nearest')
\* among the values nn
C12_AtRank(nn, v, q) ==
    LET pos    == ((Len(nn) - 1) * q + 50) \div 100
        below  == Cardinality({k \in DOMAIN nn : Before(nn[k], v)})
        upto   == Cardinality({k \in DOMAIN nn : ~Before(v, nn[k])})
    IN  /\ \E k \in DOMAIN nn : nn[k] = v
        /\ below <= pos /\ pos < upto

\* C12: in every per-resample output, the ratio cell of a condition is null
\* exactly when the condition has no row in that wd bin, and the uplift of a
\* row with such a cell is null; in the combination the bounds of a bin and
\* column are the percentiles of the non-null resample values only, and are
\* null only when every resample value is null.
C12_NullCells ==
    BootReturned =>
        /\ \A i \in DOMAIN outs : \A j \in DOMAIN outs[i].rows :
              LET r == outs[i].rows[j]
                  empty(n) == C12_Rows(i, r["wd_bin"], n) = <<>>
              IN  /\ \A n \in Range(args.df_names) :
                        /\ empty(n) <=> r[n] = Null
                        /\ empty(n) <=> r["count_" \o n] = Null
                  /\ (Len(args.df_names) = 2
                        /\ \E n \in Range(args.df_names) : empty(n)) =>
                            r["uplift"] = Null
        /\ \A j \in DOMAIN out.rows : \A c \in PointCols(args.df_names) :
              LET nn == SelectSeq(ResampleValues(out.rows[j]["wd_bin"], c),
                                  LAMBDA v : ~IsNull(v))
                  lb == out.rows[j][c \o "_lb"]
                  ub == out.rows[j][c \o "_ub"]
              IN  IF nn = <<>> THEN lb = Null /\ ub = Null
                  ELSE C12_AtRank(nn, lb, 5) /\ C12_AtRank(nn, ub, 95)

\* a resample left wd bin 0 without a row of B: its B cell and uplift are
\* null there, and the bounds of B in that bin are the value of the other
\* resample
C12_Witness ==
    /\ BootReturned
    /\ args.df_names = <<"A", "B">>
    /\ Len(outs) = 2
    /\ \E j \in DOMAIN outs[2].rows :
          /\ outs[2].rows[j]["wd_bin"] = Num(0)
          /\ outs[2].rows[j]["B"] = Null
          /\ outs[2].rows[j]["A"] = Num(10)
          /\ outs[2].rows[j]["uplift"] = Null
    /\ out.rows[1]["wd_bin"] = Num(0)
    /\ out.rows[1]["B_lb"] = Num(20) /\ out.rows[1]["B_ub"] = Num(20)
    /\ out.rows[1]["uplift_lb"] = Num(100)

-----------------------------------------------------------------------------
(* Further properties of the single-pass reducer.                          *)

\* the retained samples of the call, with their bins (after the null filter,
\* the reflection and the bin filter)
Retained ==
    FilterBins(Binned(
        WithWd(FilterNotNull(table, RefCols \o TestCols \o WsCols \o WdCols),
               WdCols, args.radius),
        RefCols, TestCols, WsCols))

HasSample(b, n) ==
    \E i \in DOMAIN Retained : Retained[i].wd_bin = b /\ Retained[i].df_name = n

WdBinLabels == {Num(wd_min + k * wd_step) : k \in 0..(NumBinsInRange - 1)}

\* the original statement of C13: in a two-condition result a row is present
\* only if both conditions have a retained sample in its wd bin, and every
\* row has a non-null finite uplift
C13_RowsOnlyWhereBoth ==
    (SingleReturned /\ Len(args.df_names) = 2) =>
        \A j \in DOMAIN out.rows :
            /\ \A n \in Range(args.df_names) : HasSample(out.rows[j]["wd_bin"], n)
            /\ IsNum(out.rows[j]["uplift"])

\* C13 (amended): in a two-condition result over inputs with positive
\* reference power a wd bin has a row exactly when at least one condition has
\* a retained sample in it; the uplift of a row is non-null exactly when both
\* conditions have a sample in the bin, and it is finite when in addition the
\* first condition's ratio is not zero (+inf or NaN otherwise).
C13_RowsWhereAny ==
    (SingleReturned /\ Len(args.df_names) = 2) =>
        /\ \A b \in WdBinLabels :
              (\E j \in DOMAIN out.rows : out.rows[j]["wd_bin"] = b)
                  <=> (\E n \in Range(args.df_names) : HasSample(b, n))
        /\ \A j \in DOMAIN out.rows :
              LET r     == out.rows[j]
                  first == r[args.df_names[1]]
                  both  == \A n \in Range(args.df_names) : HasSample(r["wd_bin"], n)
              IN  /\ r["wd_bin"] \in WdBinLabels
                  /\ ~IsNull(r["uplift"]) <=> both
                  /\ (both /\ first # Num(0)) => IsNum(r["uplift"])
                  /\ (both /\ first = Num(0)) => r["uplift"] \in {PosInf, NaN}

\* wd bin 0 has both conditions and a finite uplift, wd bin 2 has one
\* condition only: its row is there, with a null cell and a null uplift
C13_Witness ==
    /\ SingleReturned /\ args.df_names = <<"A", "B">> /\ args.radius = 0
    /\ Len(out.rows) = 2
    /\ IsNum(out.rows[1]["uplift"])
    /\ out.rows[2]["wd_bin"] = Num(2)
    /\ IsNum(out.rows[2]["A"])
    /\ out.rows[2]["B"] = Null
    /\ out.rows[2]["uplift"] = Null

-----------------------------------------------------------------------------
(* Further properties of the public entry point.                           *)

\* the distinct df_name values of the table in order of first appearance
FirstSeen == Uniq([i \in DOMAIN table |-> table[i]["df_name"]])

\* C14: when df_names is not supplied, the df_names the reducer or the
\* orchestrator is called with are the distinct df_name values of the table
\* in order of first appearance, and the uplift of an N = 1 result is that of
\* the second first-seen condition relative to the first.
C14_FirstSeenOrder ==
    (EntryCalled /\ args.df_names = PyNone /\ boot # NoBoot) =>
        /\ boot.df_names = FirstSeen
        /\ (pc = "done" /\ out.ok /\ args.N = 1) =>
              /\ out.columns = OutputColumns(FirstSeen)
              /\ \A j \in DOMAIN out.rows :
                    out.rows[j]["uplift"] =
                        Uplift(out.rows[j][FirstSeen[1]], out.rows[j][FirstSeen[2]])

-----------------------------------------------------------------------------
(* The reducer on tables with missing values.                              *)

MaxNullRows == 3

InputCols == {"pow_000", "pow_001", "ws_001", "wd_001"}

\* a sample of A with a missing value in one input column is appended
AddNullRow(col) ==
    /\ pc = "idle"
    /\ Len(table) < MaxNullRows
    /\ table' = Append(table,
                  [MkRow("A", Num(1), Num(7), Num(1), Num(100)) EXCEPT ![col] = Null])
    /\ paired' = FALSE
    /\ UNCHANGED <<present, args, pc, draws, outs, boot, log, out>>

NextNulls ==
    \/ \E name \in Names, s \in Samples : AddRow(name, Num(1), s, MaxNullRows)
    \/ \E col \in InputCols : AddNullRow(col)
    \/ \E df_names \in {<<"A">>, <<"A", "B">>}, radius \in Radii : Single(df_names, radius)

SpecNulls == InitSingle /\ [][NextNulls]_vars

\* the rows of the table without a null in any input column
Complete == SelectSeq(table, LAMBDA r : \A c \in InputCols : r[c] # Null)

CountOf(v) == IF IsNull(v) THEN 0 ELSE v.n

\* C15: the result of a reducer pass is the result of the pass on the table
\* with the rows removed that have a null in a reference, test, wind-speed or
\* wind-direction column; without reflection, count_<name> summed over the
\* wd bins is the number of rows of the condition without such a null.
C15_NullRowsRemoved ==
    (pc = "done" /\ args.fn = "single") =>
        /\ out = _compute_energy_ratio_single(Complete, args.df_names, RefCols,
                     TestCols, WdCols, WsCols, args.radius)
        /\ (out.ok /\ args.radius = 0) =>
              /\ Len(Retained) = Len(Complete)
              /\ \A n \in Range(args.df_names) :
                    SumInt([j \in DOMAIN out.rows |-> CountOf(out.rows[j]["count_" \o n])])
                        = Len(SelectSeq(Complete, LAMBDA r : r["df_name"] = n))

\* the table has a row with a null reference power and a row with a null
\* wind speed next to one complete row of A, and count_A is 1
C15_Witness ==
    /\ SingleReturned /\ args.df_names = <<"A">> /\ args.radius = 0
    /\ Len(table) = 3 /\ Len(Complete) = 1
    /\ \E i \in DOMAIN table : table[i]["pow_001"] = Null
    /\ \E i \in DOMAIN table : table[i]["ws_001"] = Null
    /\ Len(out.rows) = 1
    /\ out.rows[1]["count_A"] = Num(1)
    /\ out.rows[1]["A"] = Num(10)

-----------------------------------------------------------------------------
(* Reflection at the bin edges (SpecSingle: wind directions 1 and 2, the   *)
(* latter on the edge between the bins [0, 2) and [2, 4)).                 *)

\* the number of rows of condition n with wind direction w
C16_RowsAt(n, w) ==
    Len(SelectSeq(table, LAMBDA r : r["df_name"] = n /\ r["wd_001"] = Num(w)))

\* count_<n> of the result in wd bin b, 0 where the bin has no row or the
\* cell is null
C16_Count(b, n) ==
    LET hit == SelectSeq(out.rows, LAMBDA r : r["wd_bin"] = Num(b))
    IN  IF hit = <<>> THEN 0 ELSE CountOf(hit[1]["count_" \o n])

-----------------------------------------------------------------------------
(* Dispatch and resample coverage.                                         *)

\* the resample requests and reducer passes of the call, in order
Passes == SelectSeq(log, LAMBDA e : e.ev \in {"resample", "single"})

\* resample 0, pass 0, resample 1, pass 1, ... : the first k entries
PassesInOrder(k) ==
    [j \in 1..k |-> IF j % 2 = 1 THEN Ev("resample", (j - 1) \div 2, 0)
                    ELSE Ev("single", (j - 2) \div 2, args.wd_bin_overlap_radius)]

C17_OnePass ==
    /\ Passes = <<Ev("single", 0, args.wd_bin_overlap_radius)>>
    /\ outs = <<>> /\ draws = <<>>
    /\ out = _compute_energy_ratio_single(table, boot.df_names, boot.ref_cols,
                 boot.test_cols, boot.wd_cols, boot.ws_cols,
                 args.wd_bin_overlap_radius)

\* the original statement of C17: a call that passed validation has, when it
\* ends, run the reducer once on the table and requested no resample (N = 1),
\* or run it exactly N times, once on each resample 0 .. N-1 (N > 1), all N
\* outputs entering the combination
C17_ExactlyNPasses ==
    (EntryDone /\ boot # NoBoot) =>
        IF args.N = 1 THEN C17_OnePass
        ELSE /\ Passes = PassesInOrder(2 * args.N)
             /\ Len(outs) = args.N
             /\ out = Combine(outs, boot.df_names)

\* C17 (amended): for N = 1 the reducer is invoked exactly once, on the table
\* of the input holder, and no resample is requested.  For N > 1 the reducer
\* is invoked on the resamples of index 0, 1, ... in this order, none skipped
\* or repeated, index 0 being the table itself; a call that returns a result
\* has invoked it exactly N times and combined all N outputs; a pass that
\* raises ends the call with its error, after fewer than N completed passes.
C17_PassesInIndexOrder ==
    (EntryCalled /\ boot # NoBoot) =>
        IF args.N = 1 THEN pc = "done" /\ C17_OnePass
        ELSE /\ Len(Passes) <= 2 * args.N
             /\ Passes = PassesInOrder(Len(Passes))
             /\ Len(Passes) = 2 * Len(draws)
             /\ draws # <<>> => draws[1] = Identity(table)
             /\ \A i \in DOMAIN outs :
                   outs[i] = _compute_energy_ratio_single(Resample(table, draws[i]),
                                 boot.df_names, boot.ref_cols, boot.test_cols,
                                 boot.wd_cols, boot.ws_cols, args.wd_bin_overlap_radius)
             /\ (pc = "done" /\ out.ok) =>
                   /\ Len(outs) = args.N /\ Len(draws) = args.N
                   /\ out = Combine(outs, boot.df_names)
             /\ (pc = "done" /\ ~out.ok) =>
                   /\ Len(outs) < args.N
                   /\ Len(draws) = Len(outs) + 1
                   /\ out = _compute_energy_ratio_single(
                                 Resample(table, draws[Len(draws)]),
                                 boot.df_names, boot.ref_cols, boot.test_cols,
                                 boot.wd_cols, boot.ws_cols, args.wd_bin_overlap_radius)
             /\ pc = "boot" => Len(outs) = Len(draws)

\* a call with N = 2 returned the combination of the pass on the table and
\* the pass on a resample that is not the table
C17_Witness ==
    /\ EntryDone /\ out.ok /\ args.N = 2
    /\ Passes = PassesInOrder(4)
    /\ draws[1] = Identity(table) /\ draws[2] # Identity(table)
    /\ Len(outs) = 2
    /\ out = Combine(outs, boot.df_names)

-----------------------------------------------------------------------------
(* The worker-pool interfaces of the orchestrator (lines 199-239).         *)

MaxPoolN == 2

PoolInterfaces == {"multiprocessing", "mpi4py"}

\* a task of the pool that has not started, and one that is running
Queued  == Err("queued")
Running == Err("running")

\* lines 217-231: the N argument tuples are built in the calling process,
\* resample 0 .. N-1 in order, before any worker runs
PoolSubmit(ds) ==
    /\ pc = "boot"
    /\ boot.parallell_interface \in PoolInterfaces
    /\ DOMAIN ds = 1..boot.N
    /\ \A k \in 1..boot.N : ds[k] \in DrawsOf(table, Indices(boot.N)[k])
    /\ draws' = ds
    /\ outs' = [k \in 1..boot.N |-> Queued]
    /\ log' = log \o [k \in 1..boot.N |-> Ev("resample", Indices(boot.N)[k], 0)]
    /\ pc' = "pool"
    /\ UNCHANGED <<table, present, paired, args, boot, out>>

\* line 237: a worker takes task k
WorkerStart(k) ==
    /\ pc = "pool"
    /\ k \in DOMAIN outs /\ outs[k] = Queued
    /\ outs' = [outs EXCEPT ![k] = Running]
    /\ UNCHANGED <<table, present, paired, args, pc, draws, boot, log, out>>

\* line 237: the worker of task k returns the reducer's output, or its
\* exception
WorkerFinish(k) ==
    /\ pc = "pool"
    /\ k \in DOMAIN outs /\ outs[k] = Running
    /\ outs' = [outs EXCEPT ![k] =
                   _compute_energy_ratio_single(Resample(table, draws[k]), boot.df_names,
                       boot.ref_cols, boot.test_cols, boot.wd_cols, boot.ws_cols,
                       boot.wd_bin_overlap_radius)]
    /\ log' = Append(log, Ev("single", Indices(boot.N)[k], boot.wd_bin_overlap_radius))
    /\ UNCHANGED <<table, present, paired, args, pc, draws, boot, out>>

\* the tasks in the order their workers finished
Arrival ==
    LET done == SelectSeq(log, LAMBDA e : e.ev = "single")
    IN  [k \in DOMAIN done |-> done[k].i + 1]

\* the outputs in the order the workers finished
Gather_ArrivalOrder(results, arrival) == [k \in DOMAIN arrival |-> results[arrival[k]]]

\* line 237: starmap returns the outputs in the order of multiargs
Gather(results, arrival) == results

\* lines 237-254: starmap returns once every task has ended; an exception of
\* a task is raised in the caller, otherwise the outputs are combined
PoolGather ==
    /\ pc = "pool"
    /\ \A k \in DOMAIN outs : outs[k] \notin {Queued, Running}
    /\ IF \A k \in DOMAIN outs : outs[k].ok
       THEN out' = Combine(Gather(outs, Arrival), boot.df_names)
       ELSE out' \in {outs[k] : k \in {j \in DOMAIN outs : ~outs[j].ok}}
    /\ pc' = "done"
    /\ UNCHANGED <<table, present, paired, args, draws, outs, boot, log>>

PoolTables ==
    {<<MkRow("A", Num(1), Num(7), Num(1), Num(10)),
       MkRow("A", Num(1), Num(8), Num(2), Num(0))>>,
     <<MkRow("A", Num(1), Num(7), Num(1), Num(10)),
       MkRow("B", Num(1), Num(7), Num(2), Num(10))>>}

InitPool == table \in PoolTables /\ present = {} /\ InitCommon

NextPool ==
    \/ \E df_names \in {<<"A">>, <<"A", "B">>}, N \in 2..MaxPoolN, p \in PoolInterfaces :
          BootCall(df_names, 0, N, p)
    \/ /\ pc = "boot"
       /\ \E ds \in [1..boot.N -> [DOMAIN table -> DOMAIN table]] : PoolSubmit(ds)
    \/ \E k \in 1..MaxPoolN : WorkerStart(k)
    \/ \E k \in 1..MaxPoolN : WorkerFinish(k)
    \/ PoolGather

SpecPool == InitPool /\ [][NextPool]_vars

\* what the serial interface returns on the same resamples
SerialOutputs ==
    [k \in DOMAIN draws |->
        _compute_energy_ratio_single(Resample(table, draws[k]), args.df_names,
            RefCols, TestCols, WdCols, WsCols, boot.wd_bin_overlap_radius)]

PoolDone == pc = "done" /\ args.fn = "bootstrap" /\ args.parallell_interface \in PoolInterfaces

\* C18: under the pool interfaces, whatever the order in which the workers
\* start and finish, a call that returns a result returns the combination the
\* serial interface gives on the same N resamples, and the point estimates
\* and counts are those of resample 0 (the table itself); the call raises
\* exactly when a pass on one of the resamples raises.
C18_PoolEqualsSerial ==
    PoolDone =>
        /\ Len(draws) = args.N /\ draws[1] = Identity(table)
        /\ out.ok <=> \A k \in DOMAIN draws : SerialOutputs[k].ok
        /\ out.ok =>
              /\ out = Combine(SerialOutputs, args.df_names)
              /\ \A j \in DOMAIN out.rows :
                    \E r \in Range(SerialOutputs[1].rows) :
                        /\ r["wd_bin"] = out.rows[j]["wd_bin"]
                        /\ \A c \in PointCols(args.df_names) \cup Range(CountCols(args.df_names)) :
                              out.rows[j][c] = r[c]
        /\ ~out.ok => \E k \in DOMAIN draws : out = SerialOutputs[k]

\* the worker of resample 1 finished before the worker of resample 0, with
\* another ratio; the point estimate is that of resample 0
C18_Witness ==
    /\ PoolDone /\ out.ok
    /\ args.df_names = <<"A">>
    /\ Arrival = <<2, 1>>
    /\ outs[1].rows[1]["A"] # outs[2].rows[1]["A"]
    /\ out.rows[1]["A"] = outs[1].rows[1]["A"]

-----------------------------------------------------------------------------
\* the rows of the table whose condition is listed in df_names
Listed == SelectSeq(table, LAMBDA r : r["df_name"] \in Range(args.df_names))

\* the cell of column c in the row of wd bin b of a returned table, null
\* when the table has no such row
C19_Cell(t, b, c) ==
    LET rs == SelectSeq(t.rows, LAMBDA r : r["wd_bin"] = b)
    IN  IF rs = <<>> THEN Null ELSE rs[1][c]

\* C19: when df_names leaves out a condition of the table, every ratio,
\* uplift and count cell of a single-pass result is the cell obtained from
\* the table without the rows of that condition.
C19_OmittedHasNoEffect ==
    (SingleReturned /\ Listed # table) =>
        LET without == _compute_energy_ratio_single(Listed, args.df_names, RefCols,
                           TestCols, WdCols, WsCols, args.radius)
        IN  /\ without.ok
            /\ \A b \in WdBinLabels :
                  \A c \in Range(OutputColumns(args.df_names)) \ {"wd_bin"} :
                      C19_Cell(out, b, c) = C19_Cell(without, b, c)

=============================================================================
